---- MODULE Spec2Model ----
(***************************************************************************)
(* PriorityQueue<T, Container, Compare> of src/PriorityQueue.h: a binary   *)
(* heap kept in a vector c, ordered by the comparison object comp, with    *)
(* the driver of src/main.cpp that fills a queue and drains it.            *)
(*                                                                         *)
(* T is int.  The vector c is a sequence; the code indexes it from 0, so   *)
(* c[i] of the code is At(c, i) here.  Compare is std::less<int> or        *)
(* std::greater<int>, named "less" and "greater".                          *)
(***************************************************************************)
EXTENDS Integers, Sequences, FiniteSets, Bags, TLC

(* ------------------------------ bounds --------------------------------- *)

\* Stored values are drawn from 0..MaxVal.
MaxVal == 2

\* push is offered while fewer than MaxPushes pushes have been made; every
\* pop removes a pushed element, so pops are bounded with them.
MaxPushes == 5

\* The driver of main is run on every sequence of at most MaxInput values
\* drawn from 0..MaxDrainVal, and on the sequence main.cpp itself pushes.
MaxInput == 4

MaxDrainVal == 3

\* size_type is an unsigned integer type: its arithmetic is modulo
\* 2^SizeBits.  The model keeps 16 of its bits, far above every index a
\* queue of MaxPushes elements uses; 0 - 1 wraps to the largest value as in
\* the code.
SizeBits == 16

Values == 0 .. MaxVal

SizeMod == 2 ^ SizeBits

(* --------------------------- the container ----------------------------- *)

VARIABLES
    c,        \* Container c: the heap's backing vector
    comp,     \* value_compare comp: "less" or "greater"
    cout,     \* std::cout: the lines written so far
    last,     \* the last call made on the queue: name, argument, size before it, result
    pushes,   \* number of push calls made
    pops,     \* number of pop calls made
    pushed,   \* bag of the values pushed
    popped,   \* bag of the values top() showed right before each pop
    drained,  \* the values top() showed before each pop since the last push
    fault,    \* outcome of undefined behaviour: "none", "crash" or "garbage"
    oob,      \* TRUE once an index outside [0, c.size()) of c was accessed
    sift,     \* the last push or pop: c before it, the indices its body accessed, its upheap/downheap calls
    input,    \* main: the values its for loop pushes
    i         \* main: the loop counter of its for loop

vars == <<c, comp, cout, last, pushes, pops, pushed, popped, drained,
          fault, oob, sift, input, i>>

\* c[index] of the code
At(s, index) == s[index + 1]

\* comp(a, b) for the function objects of <functional> that Compare can be:
\* std::less<int> is a < b, std::greater<int> is a > b; the other four are
\* not strict weak orderings
Compare(cmp, a, b) ==
    CASE cmp = "less" -> a < b
      [] cmp = "greater" -> a > b
      [] cmp = "less_equal" -> a <= b
      [] cmp = "greater_equal" -> a >= b
      [] cmp = "equal_to" -> a = b
      [] cmp = "not_equal_to" -> a # b

parent(index) == ((index - 1) % SizeMod) \div 2

left_child(index) == (2 * index + 1) % SizeMod

right_child(index) == (2 * (index + 1)) % SizeMod

is_leaf(s, index) == left_child(index) >= Len(s)

size(s) == Len(s)

\* empty() off by one
empty_le1(s) == Len(s) <= 1

empty(s) == Len(s) = 0

\* top() returning c.back() instead of c.front()
top_back(s) == At(s, Len(s) - 1)

top(s) == At(s, 0)

\* an index of the vector that operator[] may access
InBounds(s, index) == index >= 0 /\ index < Len(s)

\* swap without the temporary: c[a] = c[b]; c[b] = c[a]
swap_lossy(s, a, b) == [s EXCEPT ![a + 1] = At(s, b)]

swap(s, a, b) == [s EXCEPT ![a + 1] = At(s, b), ![b + 1] = At(s, a)]

\* upheap that exchanges once and does not continue from the parent
upheap_once(cmp, s, index) ==
    IF index = 0
    THEN s
    ELSE IF Compare(cmp, At(s, parent(index)), At(s, index))
         THEN swap(s, parent(index), index)
         ELSE s

RECURSIVE upheap(_, _, _)
upheap(cmp, s, index) ==
    IF index = 0
    THEN s
    ELSE IF Compare(cmp, At(s, parent(index)), At(s, index))
         THEN upheap(cmp, swap(s, parent(index), index), parent(index))
         ELSE s

\* downheap that never looks at which child is the larger: with two
\* children it always exchanges with the left one
RECURSIVE downheap_leftonly(_, _, _)
downheap_leftonly(cmp, s, index) ==
    LET lchild == left_child(index)
        rchild == right_child(index)
    IN  IF is_leaf(s, index)
        THEN s
        ELSE IF right_child(index) >= size(s)
        THEN IF Compare(cmp, At(s, index), At(s, lchild))
             THEN downheap_leftonly(cmp, swap(s, index, lchild), lchild)
             ELSE s
        ELSE IF Compare(cmp, At(s, rchild), At(s, index))
                /\ Compare(cmp, At(s, lchild), At(s, index))
        THEN s
        ELSE downheap_leftonly(cmp, swap(s, index, lchild), lchild)

RECURSIVE downheap(_, _, _)
downheap(cmp, s, index) ==
    LET lchild == left_child(index)
        rchild == right_child(index)
    IN  IF is_leaf(s, index)
        THEN s
        ELSE IF right_child(index) >= size(s)
        THEN IF Compare(cmp, At(s, index), At(s, lchild))
             THEN downheap(cmp, swap(s, index, lchild), lchild)
             ELSE s
        ELSE IF Compare(cmp, At(s, rchild), At(s, index))
                /\ Compare(cmp, At(s, lchild), At(s, index))
        THEN s
        ELSE IF Compare(cmp, At(s, rchild), At(s, lchild))
        THEN downheap(cmp, swap(s, index, lchild), lchild)
        ELSE downheap(cmp, swap(s, index, rchild), rchild)

\* c after push(value): push_back, then upheap from the last index
push_c(cmp, s, value) ==
    LET t == Append(s, value)
    IN  upheap(cmp, t, (size(t) - 1) % SizeMod)

\* pop() that forgets c.pop_back()
pop_back_keep(s) == s

\* c.pop_back()
pop_back(s) == SubSeq(s, 1, Len(s) - 1)

\* pop() that erases the front element instead of exchanging it with the
\* last one and dropping that
pop_c_erase_front(cmp, s) == downheap(cmp, Tail(s), 0)

\* c after pop() on a non-empty queue: swap root and last, pop_back, downheap(0)
pop_c(cmp, s) ==
    downheap(cmp, pop_back(swap(s, 0, (size(s) - 1) % SizeMod)), 0)

\* the two lines pop() writes to std::cout
pop_trace(s) ==
    << <<"replacing", At(s, 0), "with", At(s, (size(s) - 1) % SizeMod)>>,
       <<"downheap finished">> >>

(* ------------------------ the calls of the sifts ----------------------- *)

\* One call of upheap(index) or downheap(index): the vector when it was
\* entered, the indices of c it dereferenced, and the exchange it made
\* (<<a, b>>: c[a] and c[b] exchanged; << >>: none).
SiftCall(index, s, reads, exchange) ==
    [index |-> index, s |-> s, reads |-> reads, swap |-> exchange]

\* upheap_calls with one slip, named by bug:
\*   "no_root_check"  the index == 0 test is missing, so parent(0) is
\*                    computed and c[parent(0)] dereferenced
\*   "swap_on_equal"  the test is !comp(c[index], c[parent(index)])
RECURSIVE upheap_calls_bug(_, _, _, _)
upheap_calls_bug(cmp, s, index, bug) ==
    IF index = 0
    THEN IF bug = "no_root_check"
         THEN << SiftCall(index, s, {parent(index), index}, << >>) >>
         ELSE << SiftCall(index, s, {}, << >>) >>
    ELSE IF IF bug = "swap_on_equal"
            THEN ~Compare(cmp, At(s, index), At(s, parent(index)))
            ELSE Compare(cmp, At(s, parent(index)), At(s, index))
         THEN << SiftCall(index, s, {parent(index), index}, <<parent(index), index>>) >>
              \o upheap_calls_bug(cmp, swap(s, parent(index), index), parent(index), bug)
         ELSE << SiftCall(index, s, {parent(index), index}, << >>) >>

upheap_calls_no_root_check(cmp, s, index) ==
    upheap_calls_bug(cmp, s, index, "no_root_check")

upheap_calls_swap_on_equal(cmp, s, index) ==
    upheap_calls_bug(cmp, s, index, "swap_on_equal")

\* the calls upheap(index) makes, itself first, in order
RECURSIVE upheap_calls(_, _, _)
upheap_calls(cmp, s, index) ==
    IF index = 0
    THEN << SiftCall(index, s, {}, << >>) >>
    ELSE IF Compare(cmp, At(s, parent(index)), At(s, index))
         THEN << SiftCall(index, s, {parent(index), index}, <<parent(index), index>>) >>
              \o upheap_calls(cmp, swap(s, parent(index), index), parent(index))
         ELSE << SiftCall(index, s, {parent(index), index}, << >>) >>

\* downheap_calls with one slip, named by bug:
\*   "no_leaf_check"       the is_leaf test is missing
\*   "left_only_reversed"  with a left child only, the test is
\*                         comp(c[lchild], c[index])
\*   "recurse_right"       with a left child only, the call after the
\*                         exchange is downheap(rchild)
\*   "stop_if_none_higher" with two children, the stop test is
\*                         !comp(c[index], c[rchild]) && !comp(c[index], c[lchild])
\*   "tie_left"            with two children, the left one is chosen unless
\*                         comp(c[lchild], c[rchild])
RECURSIVE downheap_calls_bug(_, _, _, _)
downheap_calls_bug(cmp, s, index, bug) ==
    LET lchild == left_child(index)
        rchild == right_child(index)
    IN  IF is_leaf(s, index)
        THEN IF bug = "no_leaf_check"
             THEN << SiftCall(index, s, {index, lchild}, << >>) >>
             ELSE << SiftCall(index, s, {}, << >>) >>
        ELSE IF right_child(index) >= size(s)
        THEN IF IF bug = "left_only_reversed"
                THEN Compare(cmp, At(s, lchild), At(s, index))
                ELSE Compare(cmp, At(s, index), At(s, lchild))
             THEN << SiftCall(index, s, {index, lchild}, <<index, lchild>>) >>
                  \o downheap_calls_bug(cmp, swap(s, index, lchild),
                                        IF bug = "recurse_right" THEN rchild ELSE lchild,
                                        bug)
             ELSE << SiftCall(index, s, {index, lchild}, << >>) >>
        ELSE IF IF bug = "stop_if_none_higher"
                THEN ~Compare(cmp, At(s, index), At(s, rchild))
                     /\ ~Compare(cmp, At(s, index), At(s, lchild))
                ELSE Compare(cmp, At(s, rchild), At(s, index))
                     /\ Compare(cmp, At(s, lchild), At(s, index))
        THEN << SiftCall(index, s, {rchild, index, lchild}, << >>) >>
        ELSE IF IF bug = "tie_left"
                THEN ~Compare(cmp, At(s, lchild), At(s, rchild))
                ELSE Compare(cmp, At(s, rchild), At(s, lchild))
        THEN << SiftCall(index, s, {rchild, index, lchild}, <<index, lchild>>) >>
             \o downheap_calls_bug(cmp, swap(s, index, lchild), lchild, bug)
        ELSE << SiftCall(index, s, {rchild, index, lchild}, <<index, rchild>>) >>
             \o downheap_calls_bug(cmp, swap(s, index, rchild), rchild, bug)

downheap_calls_no_leaf_check(cmp, s, index) ==
    downheap_calls_bug(cmp, s, index, "no_leaf_check")

downheap_calls_left_only_reversed(cmp, s, index) ==
    downheap_calls_bug(cmp, s, index, "left_only_reversed")

downheap_calls_recurse_right(cmp, s, index) ==
    downheap_calls_bug(cmp, s, index, "recurse_right")

downheap_calls_stop_if_none_higher(cmp, s, index) ==
    downheap_calls_bug(cmp, s, index, "stop_if_none_higher")

downheap_calls_tie_left(cmp, s, index) ==
    downheap_calls_bug(cmp, s, index, "tie_left")

\* the calls downheap(index) makes, itself first, in order
RECURSIVE downheap_calls(_, _, _)
downheap_calls(cmp, s, index) ==
    LET lchild == left_child(index)
        rchild == right_child(index)
    IN  IF is_leaf(s, index)
        THEN << SiftCall(index, s, {}, << >>) >>
        ELSE IF right_child(index) >= size(s)
        THEN IF Compare(cmp, At(s, index), At(s, lchild))
             THEN << SiftCall(index, s, {index, lchild}, <<index, lchild>>) >>
                  \o downheap_calls(cmp, swap(s, index, lchild), lchild)
             ELSE << SiftCall(index, s, {index, lchild}, << >>) >>
        ELSE IF Compare(cmp, At(s, rchild), At(s, index))
                /\ Compare(cmp, At(s, lchild), At(s, index))
        THEN << SiftCall(index, s, {rchild, index, lchild}, << >>) >>
        ELSE IF Compare(cmp, At(s, rchild), At(s, lchild))
        THEN << SiftCall(index, s, {rchild, index, lchild}, <<index, lchild>>) >>
             \o downheap_calls(cmp, swap(s, index, lchild), lchild)
        ELSE << SiftCall(index, s, {rchild, index, lchild}, <<index, rchild>>) >>
             \o downheap_calls(cmp, swap(s, index, rchild), rchild)

\* what push(value) does to c: push_back accesses no stored element, then
\* upheap(c.size() - 1)
push_sift(cmp, s, value) ==
    LET t == Append(s, value)
    IN  [op |-> "push", pre |-> s, direct |-> {},
         calls |-> upheap_calls(cmp, t, (size(t) - 1) % SizeMod)]

\* what pop() does to c: it streams c[0] and c[c.size() - 1], swaps them,
\* then pop_back and downheap(0)
pop_sift(cmp, s) ==
    [op |-> "pop", pre |-> s, direct |-> {0, (size(s) - 1) % SizeMod},
     calls |-> downheap_calls(cmp, pop_back(swap(s, 0, (size(s) - 1) % SizeMod)), 0)]

NoSift == [op |-> "none", pre |-> << >>, direct |-> {}, calls |-> << >>]

(* ----------------------------- the calls ------------------------------- *)

Call(name, arg, result) ==
    [name |-> name, arg |-> arg, presize |-> Len(c), ret |-> result]

NoCall == [name |-> "none", arg |-> 0, presize |-> 0, ret |-> 0]

Init ==
    /\ c = << >>
    /\ comp \in {"less", "greater"}
    /\ cout = << >>
    /\ last = NoCall
    /\ pushes = 0
    /\ pops = 0
    /\ pushed = EmptyBag
    /\ popped = EmptyBag
    /\ drained = << >>
    /\ fault = "none"
    /\ oob = FALSE
    /\ sift = NoSift
    /\ input = << >>
    /\ i = 0

\* push() that tests comp(value, value) and reports an ordering that is
\* not irreflexive
Push_validating ==
    /\ fault = "none"
    /\ pushes < MaxPushes
    /\ \E value \in Values :
          /\ c' = push_c(comp, c, value)
          /\ sift' = push_sift(comp, c, value)
          /\ last' = Call("push", value, 0)
          /\ pushed' = pushed (+) SetToBag({value})
          /\ fault' = IF Compare(comp, value, value) THEN "InvalidOrdering" ELSE fault
    /\ pushes' = pushes + 1
    /\ drained' = << >>
    /\ UNCHANGED <<comp, cout, pops, popped, oob, input, i>>

Push ==
    /\ fault = "none"
    /\ pushes < MaxPushes
    /\ \E value \in Values :
          /\ c' = push_c(comp, c, value)
          /\ sift' = push_sift(comp, c, value)
          /\ last' = Call("push", value, 0)
          /\ pushed' = pushed (+) SetToBag({value})
    /\ pushes' = pushes + 1
    /\ drained' = << >>
    /\ UNCHANGED <<comp, cout, pops, popped, fault, oob, input, i>>

Pop ==
    /\ fault = "none"
    /\ ~empty(c)
    /\ c' = pop_c(comp, c)
    /\ sift' = pop_sift(comp, c)
    /\ cout' = cout \o pop_trace(c)
    /\ last' = Call("pop", 0, 0)
    /\ pops' = pops + 1
    /\ popped' = popped (+) SetToBag({top(c)})
    /\ drained' = Append(drained, top(c))
    /\ UNCHANGED <<comp, pushes, pushed, fault, oob, input, i>>

\* top() that consumes the element it returns
Top_consuming ==
    /\ fault = "none"
    /\ ~empty(c)
    /\ last' = Call("top", 0, top(c))
    /\ c' = Tail(c)
    /\ UNCHANGED <<comp, cout, pushes, pops, pushed, popped, drained,
                   fault, oob, sift, input, i>>

Top ==
    /\ fault = "none"
    /\ ~empty(c)
    /\ last' = Call("top", 0, top(c))
    /\ UNCHANGED <<c, comp, cout, pushes, pops, pushed, popped, drained,
                   fault, oob, sift, input, i>>

Size ==
    /\ fault = "none"
    /\ last' = Call("size", 0, size(c))
    /\ UNCHANGED <<c, comp, cout, pushes, pops, pushed, popped, drained,
                   fault, oob, sift, input, i>>

Empty ==
    /\ fault = "none"
    /\ last' = Call("empty", 0, IF empty(c) THEN 1 ELSE 0)
    /\ UNCHANGED <<c, comp, cout, pushes, pops, pushed, popped, drained,
                   fault, oob, sift, input, i>>

Next == Push \/ Pop \/ Top \/ Size \/ Empty

Spec == Init /\ [][Next]_vars

(* ------------------- any comparison function object ------------------- *)

\* Compare is a template parameter: any function object type can be
\* supplied, a strict weak ordering or not.
Comparators ==
    {"less", "greater", "less_equal", "greater_equal", "equal_to", "not_equal_to"}

InitAny ==
    /\ c = << >>
    /\ comp \in Comparators
    /\ cout = << >>
    /\ last = NoCall
    /\ pushes = 0
    /\ pops = 0
    /\ pushed = EmptyBag
    /\ popped = EmptyBag
    /\ drained = << >>
    /\ fault = "none"
    /\ oob = FALSE
    /\ sift = NoSift
    /\ input = << >>
    /\ i = 0

\* the calls that run a sift
NextAny == Push \/ Pop

SpecAny == InitAny /\ [][NextAny]_vars

(* ---------------- calls that break the precondition -------------------- *)

\* top() on an empty queue returns c[0] of an empty vector: undefined
\* behaviour.  The build either crashes on the access or hands back
\* whatever the storage holds.  No statement of top() reports an error.
TopEmpty ==
    /\ fault = "none"
    /\ empty(c)
    /\ oob' = ~InBounds(c, 0)
    /\ \E outcome \in {"crash", "garbage"} :
          /\ fault' = outcome
          /\ \E garbage \in Values :
                last' = Call("top", 0, IF outcome = "garbage" THEN garbage ELSE 0)
    /\ UNCHANGED <<c, comp, cout, pushes, pops, pushed, popped, drained,
                   sift, input, i>>

\* pop() on an empty queue streams c[0] and c[c.size() - 1], swaps them and
\* calls pop_back() on the empty vector: undefined behaviour, with the same
\* two outcomes.  c.size() - 1 wraps to the largest size_type value.  No
\* statement of pop() reports an error.
PopEmpty ==
    /\ fault = "none"
    /\ empty(c)
    /\ oob' = (~InBounds(c, 0) \/ ~InBounds(c, (size(c) - 1) % SizeMod))
    /\ \E outcome \in {"crash", "garbage"} : fault' = outcome
    /\ last' = Call("pop", 0, 0)
    /\ pops' = pops + 1
    /\ UNCHANGED <<c, comp, cout, pushes, pushed, popped, drained, sift,
                   input, i>>

\* What the program does after undefined behaviour is not modelled: every
\* call is offered only while fault = "none".
NextMisuse == Push \/ Pop \/ Top \/ Size \/ Empty \/ TopEmpty \/ PopEmpty

SpecMisuse == Init /\ [][NextMisuse]_vars

(* --------------------------- the driver -------------------------------- *)

\* main's for loop runs i from 0 to 9
MainCount == 10

\* the values main pushes, in the order it pushes them: 0, 1, ..., 9
MainInput == [n \in 1 .. MainCount |-> n - 1]

DrainValues == 0 .. MaxDrainVal

DrainInputs ==
    UNION {[1 .. n -> DrainValues] : n \in 0 .. MaxInput} \cup {MainInput}

\* main constructs a queue (max_pq with std::less, min_pq with
\* std::greater; the two are independent objects, one per behaviour here)
InitDrain ==
    /\ c = << >>
    /\ comp \in {"less", "greater"}
    /\ cout = << >>
    /\ last = NoCall
    /\ pushes = 0
    /\ pops = 0
    /\ pushed = EmptyBag
    /\ popped = EmptyBag
    /\ drained = << >>
    /\ fault = "none"
    /\ oob = FALSE
    /\ sift = NoSift
    /\ input \in DrainInputs
    /\ i = 0

\* one iteration of main's for loop: push the next value
MainPush ==
    /\ i < Len(input)
    /\ c' = push_c(comp, c, input[i + 1])
    /\ sift' = push_sift(comp, c, input[i + 1])
    /\ last' = Call("push", input[i + 1], 0)
    /\ pushed' = pushed (+) SetToBag({input[i + 1]})
    /\ pushes' = pushes + 1
    /\ drained' = << >>
    /\ i' = i + 1
    /\ UNCHANGED <<comp, cout, pops, popped, fault, oob, input>>

\* one iteration of main's while loop: print top(), then pop()
MainDrain ==
    /\ i = Len(input)
    /\ ~empty(c)
    /\ c' = pop_c(comp, c)
    /\ sift' = pop_sift(comp, c)
    /\ cout' = cout \o << <<top(c), " ">> >> \o pop_trace(c)
    /\ last' = Call("pop", 0, 0)
    /\ pops' = pops + 1
    /\ popped' = popped (+) SetToBag({top(c)})
    /\ drained' = Append(drained, top(c))
    /\ UNCHANGED <<comp, pushes, pushed, fault, oob, input, i>>

NextDrain == MainPush \/ MainDrain

SpecDrain == InitDrain /\ [][NextDrain]_vars

(* ----------------------------- properties ------------------------------ *)

Elements(s) == {s[n] : n \in DOMAIN s}

SeqBag(s) == [v \in Elements(s) |-> Cardinality({n \in DOMAIN s : s[n] = v})]

IsDistinct(s) == \A a, b \in DOMAIN s : a # b => s[a] # s[b]

\* C1: when a push or a pop has returned, no element has strictly lower
\* priority than its child: for every index idx > 0,
\* comp(c[(idx - 1) / 2], c[idx]) is false.
C1_HeapProperty ==
    \A idx \in 1 .. Len(c) - 1 :
        ~Compare(comp, At(c, (idx - 1) \div 2), At(c, idx))

C1_Witness ==
    /\ last.name = "pop"
    /\ Len(c) = 4
    /\ Cardinality(Elements(c)) = 3

\* C2: on a non-empty queue top() returns an element that no stored element
\* outranks: comp(top(), e) is false for every stored e.
C2_TopIsHighest ==
    /\ ~empty(c) => \A n \in DOMAIN c : ~Compare(comp, top(c), c[n])
    /\ last.name = "top" => \A n \in DOMAIN c : ~Compare(comp, last.ret, c[n])

C2_Witness ==
    /\ last.name = "top"
    /\ comp = "greater"
    /\ Len(c) = 5
    /\ last.ret = 0
    /\ MaxVal \in Elements(c)

\* C3: the stored elements, as a multiset, are the pushed values minus the
\* values top() showed right before each pop.
C3_MultisetPreserved == SeqBag(c) (+) popped = pushed

C3_Witness ==
    /\ last.name = "pop"
    /\ pops = 2
    /\ Len(c) = 3
    /\ Cardinality(Elements(c)) >= 2

\* C4: pushing distinct integers and draining the queue yields them in
\* strictly descending order under std::less and in strictly ascending
\* order under std::greater, each exactly once; pushing 0..9 yields
\* 9, 8, ..., 0 and 0, 1, ..., 9.
C4_SortedExtraction ==
    IsDistinct(input) =>
        /\ \A n \in 1 .. Len(drained) - 1 :
              IF comp = "less"
              THEN drained[n] > drained[n + 1]
              ELSE drained[n] < drained[n + 1]
        /\ (i = Len(input) /\ empty(c)) =>
              /\ pops = Len(input)
              /\ Len(drained) = Len(input)
              /\ Elements(drained) = Elements(input)
        /\ (input = MainInput /\ i = Len(input) /\ empty(c)) =>
              drained = IF comp = "less"
                        THEN <<9, 8, 7, 6, 5, 4, 3, 2, 1, 0>>
                        ELSE <<0, 1, 2, 3, 4, 5, 6, 7, 8, 9>>

C4_Witness ==
    /\ input = MainInput
    /\ comp = "less"
    /\ i = MainCount
    /\ empty(c)
    /\ Len(drained) = MainCount

\* C5: top() and pop() on an empty queue signal EmptyContainer and access
\* no index outside the vector.
C5_EmptyCallFailsFast ==
    (last.name \in {"top", "pop"} /\ last.presize = 0) =>
        (fault = "EmptyContainer" /\ ~oob)

\* C6: size() is the number of pushes minus the number of pops, a push
\* adds one to it, a pop takes one from it, and empty() is true exactly
\* when size() is 0.
C6_SizeAccounting ==
    /\ size(c) = pushes - pops
    /\ last.name = "push" => size(c) = last.presize + 1
    /\ last.name = "pop" => size(c) = last.presize - 1
    /\ last.name = "size" => last.ret = pushes - pops
    /\ last.name = "empty" => (last.ret = 1 <=> size(c) = 0)
    /\ empty(c) <=> size(c) = 0

C6_Witness ==
    /\ last.name = "size"
    /\ pushes = 4
    /\ pops = 2
    /\ last.ret = 2

\* C7: once values of equal priority have been pushed, the heap property
\* still holds after every call, successive pops never yield a value that
\* outranks the one before it, and a queue drained to empty has popped
\* every pushed value exactly once.
C7_DuplicatePriorities ==
    (\E v \in BagToSet(pushed) : pushed[v] >= 2) =>
        /\ \A idx \in 1 .. Len(c) - 1 :
              ~Compare(comp, At(c, parent(idx)), At(c, idx))
        /\ \A n \in 1 .. Len(drained) - 1 :
              ~Compare(comp, drained[n], drained[n + 1])
        /\ empty(c) => popped = pushed

C7_Witness ==
    /\ empty(c)
    /\ pushes = 5
    /\ pops = 5
    /\ Len(drained) = 3
    /\ drained[1] = drained[2]
    /\ drained[2] # drained[3]

\* C8: top(), size() and empty() leave the stored sequence as it is, and
\* top() returns the front of that unchanged sequence, so repeated top()
\* calls with no push or pop between them return the same value.
C8_ObserversPure ==
    [][last'.name \in {"top", "size", "empty"} =>
          /\ c' = c
          /\ last'.name = "top" => last'.ret = At(c, 0)
          /\ (last.name = "top" /\ last'.name = "top") => last'.ret = last.ret]_vars

C8_Witness ==
    /\ last.name = "top"
    /\ Len(c) = 3
    /\ last.ret = At(c, 0)

\* C9: after push(x) on an empty queue, top() returns x and pop() leaves
\* the queue empty.
C9_SingleRoundTrip ==
    [][(last.name = "push" /\ last.presize = 0) =>
          /\ last'.name = "top" => last'.ret = last.arg
          /\ last'.name = "pop" => (size(c') = 0 /\ empty(c'))]_vars

C9_Witness ==
    /\ last.name = "pop"
    /\ last.presize = 1
    /\ pushes = 1
    /\ pops = 1
    /\ empty(c)

\* C10: push and pop change nothing but the stored sequence: nothing is
\* ever written to std::cout.
C10_NoOutput == cout = << >>

(* ----------------------- properties of the sifts ----------------------- *)

LeftOf(call) == 2 * call.index + 1

RightOf(call) == 2 * call.index + 2

TwoChildren(call) == RightOf(call) < Len(call.s)

LeftOnly(call) == LeftOf(call) < Len(call.s) /\ RightOf(call) >= Len(call.s)

NodeVal(call) == At(call.s, call.index)

LeftVal(call) == At(call.s, LeftOf(call))

RightVal(call) == At(call.s, RightOf(call))

Exchanges == {k \in DOMAIN sift.calls : sift.calls[k].swap # << >>}

RECURSIVE CeilLog2(_)
CeilLog2(n) == IF n <= 1 THEN 0 ELSE 1 + CeilLog2((n + 1) \div 2)

RECURSIVE FloorLog2(_)
FloorLog2(n) == IF n <= 1 THEN 0 ELSE 1 + FloorLog2(n \div 2)

RECURSIVE PathToRoot(_)
PathToRoot(idx) ==
    IF idx = 0 THEN {0} ELSE {idx} \cup PathToRoot((idx - 1) \div 2)

\* C11 as stated: in pop's downheap, at a node with two children neither of
\* which has strictly higher priority than the node, the restoration stops
\* there with no exchange.
C11_StopsUnlessChildHigher ==
    sift.op = "pop" =>
        \A k \in DOMAIN sift.calls :
            LET call == sift.calls[k]
            IN  (/\ TwoChildren(call)
                 /\ ~Compare(comp, NodeVal(call), LeftVal(call))
                 /\ ~Compare(comp, NodeVal(call), RightVal(call)))
                => (call.swap = << >> /\ k = Len(sift.calls))

\* C11 amended: in pop's downheap, at a node with two children, the
\* restoration stops with no exchange exactly when both children have
\* strictly lower priority than the node; when neither child is higher but
\* one is equal in priority to the node, the node is exchanged with a child
\* of equal priority and the restoration continues from that child.
C11_StopsIffBothLower ==
    sift.op = "pop" =>
        \A k \in DOMAIN sift.calls :
            LET call == sift.calls[k]
            IN  TwoChildren(call) =>
                  /\ (call.swap = << >>) <=>
                        (/\ Compare(comp, RightVal(call), NodeVal(call))
                         /\ Compare(comp, LeftVal(call), NodeVal(call)))
                  /\ call.swap = << >> => k = Len(sift.calls)
                  /\ (/\ call.swap # << >>
                      /\ ~Compare(comp, NodeVal(call), LeftVal(call))
                      /\ ~Compare(comp, NodeVal(call), RightVal(call)))
                     => /\ ~Compare(comp, NodeVal(call), At(call.s, call.swap[2]))
                        /\ ~Compare(comp, At(call.s, call.swap[2]), NodeVal(call))
                        /\ k < Len(sift.calls)
                        /\ sift.calls[k + 1].index = call.swap[2]

C11_Witness ==
    /\ sift.op = "pop"
    /\ \E k \in DOMAIN sift.calls :
          LET call == sift.calls[k]
          IN  /\ TwoChildren(call)
              /\ ~Compare(comp, NodeVal(call), LeftVal(call))
              /\ ~Compare(comp, NodeVal(call), RightVal(call))
              /\ LeftVal(call) # RightVal(call)
              /\ call.swap # << >>

\* C12 as stated: pop() on a queue of one element shrinks it to empty and
\* downheap is not invoked on the empty sequence.
C12_NoDownheapOnEmpty ==
    (sift.op = "pop" /\ Len(sift.pre) = 1) =>
        (empty(c) /\ sift.calls = << >>)

\* C12 amended: pop() on a queue of one element shrinks it to empty;
\* downheap(0) is then invoked once on the empty sequence and returns at its
\* leaf test, dereferencing no element and exchanging nothing.
C12_DownheapOnEmptyReturns ==
    (sift.op = "pop" /\ Len(sift.pre) = 1) =>
        /\ empty(c)
        /\ sift.calls = << SiftCall(0, << >>, {}, << >>) >>

C12_Witness ==
    /\ sift.op = "pop"
    /\ Len(sift.pre) = 1
    /\ pushes = 3
    /\ pops = 3
    /\ empty(c)

\* C13: in pop's downheap, a node with two children that is exchanged is
\* exchanged with the left child exactly when comp(right, left) is true and
\* with the right child otherwise (so with the right one when the children
\* are equal in priority), and the restoration continues from that child.
C13_ChildChoice ==
    sift.op = "pop" =>
        \A k \in DOMAIN sift.calls :
            LET call == sift.calls[k]
            IN  (TwoChildren(call) /\ call.swap # << >>) =>
                  /\ call.swap[1] = call.index
                  /\ call.swap[2] \in {LeftOf(call), RightOf(call)}
                  /\ call.swap[2] = LeftOf(call)
                        <=> Compare(comp, RightVal(call), LeftVal(call))
                  /\ (/\ ~Compare(comp, RightVal(call), LeftVal(call))
                      /\ ~Compare(comp, LeftVal(call), RightVal(call)))
                     => call.swap[2] = RightOf(call)
                  /\ k < Len(sift.calls)
                  /\ sift.calls[k + 1].index = call.swap[2]
                  /\ sift.calls[k + 1].s
                        = [call.s EXCEPT ![call.index + 1] = At(call.s, call.swap[2]),
                                         ![call.swap[2] + 1] = NodeVal(call)]

C13_Witness ==
    /\ sift.op = "pop"
    /\ \E k \in DOMAIN sift.calls :
          LET call == sift.calls[k]
          IN  /\ TwoChildren(call)
              /\ LeftVal(call) = RightVal(call)
              /\ NodeVal(call) # LeftVal(call)
              /\ call.swap = <<call.index, RightOf(call)>>

\* C14: in pop's downheap, a node with a left child and no right child is
\* exchanged with the left child if and only if comp(node, left) is true,
\* the restoration then continuing from the child; otherwise it stops with
\* no exchange.
C14_LeftChildOnly ==
    sift.op = "pop" =>
        \A k \in DOMAIN sift.calls :
            LET call == sift.calls[k]
            IN  LeftOnly(call) =>
                  /\ (call.swap # << >>)
                        <=> Compare(comp, NodeVal(call), LeftVal(call))
                  /\ call.swap # << >> =>
                        /\ call.swap = <<call.index, LeftOf(call)>>
                        /\ k < Len(sift.calls)
                        /\ sift.calls[k + 1].index = LeftOf(call)
                  /\ call.swap = << >> => k = Len(sift.calls)

C14_Witness ==
    /\ sift.op = "pop"
    /\ \E k \in DOMAIN sift.calls :
          LET call == sift.calls[k]
          IN  /\ k > 1
              /\ LeftOnly(call)
              /\ call.swap = <<call.index, LeftOf(call)>>

\* C15: push(value) appends value at index size - 1 and moves it only
\* toward the root: it is exchanged with its parent exactly while it is not
\* at index 0 and comp(parent, current) is true, and it stays where that
\* first fails; a push into a queue of resulting size n makes at most
\* ceil(log2(n)) exchanges, none for n = 1.
C15_PushSiftsUp ==
    sift.op = "push" =>
        LET calls == sift.calls
            n == Len(sift.pre) + 1
            value == At(calls[1].s, n - 1)
        IN  /\ Len(c) = n
            /\ calls[1].index = n - 1
            /\ calls[1].s = Append(sift.pre, value)
            /\ last.name = "push" => last.arg = value
            /\ \A k \in DOMAIN calls :
                  LET call == calls[k]
                      up == (call.index - 1) \div 2
                  IN  /\ NodeVal(call) = value
                      /\ (call.swap # << >>)
                            <=> (/\ call.index # 0
                                 /\ Compare(comp, At(call.s, up), NodeVal(call)))
                      /\ call.swap # << >> =>
                            /\ k < Len(calls)
                            /\ calls[k + 1].index = up
                            /\ calls[k + 1].s
                                  = [call.s EXCEPT ![up + 1] = value,
                                                   ![call.index + 1] = At(call.s, up)]
                      /\ call.swap = << >> => (k = Len(calls) /\ c = call.s)
            /\ Cardinality(Exchanges) <= CeilLog2(n)
            /\ n = 1 => Exchanges = {}

C15_Witness ==
    /\ sift.op = "push"
    /\ Len(c) = 5
    /\ Cardinality(Exchanges) = 2
    /\ At(c, 0) # At(c, 1)

\* C16: whatever the comparison, every push and pop makes a bounded number
\* of sift calls: each further upheap call is on a strictly smaller index,
\* each further downheap call on a strictly larger index that is in
\* bounds, and the exchanges of one call number at most the height of the
\* tree.
C16_SiftsTerminate ==
    sift.op \in {"push", "pop"} =>
        LET calls == sift.calls
            n == Len(calls[1].s)
        IN  /\ Len(calls) >= 1
            /\ \A k \in 1 .. Len(calls) - 1 :
                  IF sift.op = "push"
                  THEN /\ calls[k + 1].index < calls[k].index
                       /\ calls[k + 1].index >= 0
                  ELSE /\ calls[k + 1].index > calls[k].index
                       /\ calls[k + 1].index < Len(calls[k + 1].s)
            /\ Cardinality(Exchanges) <= FloorLog2(n)
            /\ Len(calls) <= FloorLog2(n) + 1

C16_Witness ==
    /\ comp = "not_equal_to"
    /\ sift.op = "pop"
    /\ Len(sift.calls) = 3
    /\ Cardinality(Exchanges) = 2

\* C17: with a comparison that is not a strict weak ordering no call ever
\* reports an error: every push and pop completes as usual, also in the
\* states where the heap property is violated.
C17_InvalidOrderingUndetected ==
    comp \notin {"less", "greater"} =>
        /\ fault = "none"
        /\ ~oob
        /\ size(c) = pushes - pops

C17_Witness ==
    /\ comp = "less_equal"
    /\ fault = "none"
    /\ pushes >= 2
    /\ pops >= 1
    /\ \E idx \in 1 .. Len(c) - 1 :
          Compare(comp, At(c, (idx - 1) \div 2), At(c, idx))

\* C18: every index of c that push, pop, upheap, swap and downheap
\* dereference lies in [0, size) at that moment; upheap at index 0
\* computes no parent and dereferences nothing.
C18_IndicesInBounds ==
    sift.op \in {"push", "pop"} =>
        /\ ~oob
        /\ \A idx \in sift.direct : idx >= 0 /\ idx < Len(sift.pre)
        /\ \A k \in DOMAIN sift.calls :
              LET call == sift.calls[k]
              IN  /\ \A idx \in call.reads : idx >= 0 /\ idx < Len(call.s)
                  /\ call.swap # << >> =>
                        {call.swap[1], call.swap[2]} \subseteq call.reads
                  /\ (sift.op = "push" /\ call.index = 0) => call.reads = {}

C18_Witness ==
    /\ sift.op = "push"
    /\ Len(c) = 4
    /\ Len(sift.calls) = 3
    /\ sift.calls[3].index = 0
    /\ sift.calls[3].reads = {}

\* C19: push changes no element off the path from the new last index to
\* the root; pop changes no element other than the root, the removed last
\* index and the indices of the one downward path downheap follows.
C19_FrameOfSifts ==
    /\ sift.op = "push" =>
          /\ Len(c) = Len(sift.pre) + 1
          /\ \A j \in 0 .. Len(sift.pre) - 1 :
                j \notin PathToRoot(Len(sift.pre)) => At(c, j) = At(sift.pre, j)
    /\ sift.op = "pop" =>
          LET calls == sift.calls
              path == {calls[k].index : k \in DOMAIN calls}
          IN  /\ Len(c) = Len(sift.pre) - 1
              /\ calls[1].index = 0
              /\ \A k \in 1 .. Len(calls) - 1 :
                    calls[k + 1].index \in {LeftOf(calls[k]), RightOf(calls[k])}
              /\ \A j \in 0 .. Len(c) - 1 :
                    j \notin ({0, Len(sift.pre) - 1} \cup path)
                       => At(c, j) = At(sift.pre, j)

C19_Witness ==
    /\ sift.op = "pop"
    /\ Len(sift.pre) = 5
    /\ Len(sift.calls) = 3
    /\ Cardinality(Exchanges) = 2
    /\ Cardinality(Elements(c)) = 3

====
